---- MODULE Spec2Model ----
(***************************************************************************)
(* Model of the interpolation node of the Animated library:                *)
(*   Libraries/Animated/src/nodes/AnimatedInterpolation.js   (scripting)   *)
(*   ReactAndroid/.../animated/InterpolationAnimatedNode.java (native)     *)
(*                                                                         *)
(* Numbers.  A JS number / Java double is modelled as a pair <<n, d>>:     *)
(*   d > 0      the rational n/d in lowest terms                           *)
(*   <<1, 0>>   +Infinity,  <<-1, 0>>  -Infinity,  <<0, 0>>  NaN           *)
(* with the IEEE-754 rules for the special values.  Finite arithmetic is   *)
(* exact (no rounding) and the sign of zero is not tracked.                *)
(***************************************************************************)
EXTENDS Integers, Sequences, FiniteSets, TLC

VARIABLES
  config,         \* AnimatedInterpolation._config
  interpolation,  \* AnimatedInterpolation._interpolation (the compiled mapper)
  nodeValue,      \* current value of each scripting-tier value node
  jsOut,          \* outcome of the last __getValue() call
  nativeConfig,   \* the config exported by __getNativeConfig()
  registry,       \* native tier: the nodes registered by identifier
  native,         \* native tier: the InterpolationAnimatedNode
  mValue,         \* native tier: its mValue
  nativeOut,      \* outcome of the last update() call
  upstream,       \* per value node: the node it is derived from, 0 for none
  children,       \* per value node: its children, in insertion order
  promoted,       \* the nodes marked native, in the order they were marked
  lifecycle,      \* of the interpolation node: created, attached, detached
  teardown        \* outcome of the last super.__detach()

jsVars == <<config, interpolation, nodeValue, jsOut>>
nativeVars == <<registry, native, mValue, nativeOut>>
graphVars == <<upstream, children, promoted, lifecycle, teardown>>
vars == <<jsVars, nativeConfig, nativeVars, graphVars>>

(* ---- bounds ---- *)
MaxLen == 3
MaxVal == 2

(* ---- numbers ---- *)
Abs(n) == IF n < 0 THEN -n ELSE n
Sign(n) == IF n < 0 THEN -1 ELSE IF n > 0 THEN 1 ELSE 0

RECURSIVE GCD(_, _)
GCD(a, b) == IF b = 0 THEN a ELSE GCD(b, a % b)

Frac(n, d) ==
  IF d = 0 THEN <<Sign(n), 0>>
  ELSE LET g == GCD(Abs(n), Abs(d))
       IN  <<(Sign(d) * n) \div g, Abs(d) \div g>>

Num(n) == <<n, 1>>
PosInf == <<1, 0>>
NegInf == <<-1, 0>>
NaN == <<0, 0>>

IsNaN(a) == a = NaN
IsInf(a) == a[2] = 0 /\ a[1] # 0
IsFinite(a) == a[2] # 0

\* a < b
Lt(a, b) ==
  /\ ~IsNaN(a)
  /\ ~IsNaN(b)
  /\ IF IsInf(a) \/ IsInf(b)
     THEN (a = NegInf /\ b # NegInf) \/ (b = PosInf /\ a # PosInf)
     ELSE a[1] * b[2] < b[1] * a[2]

\* a === b
Eq(a, b) == ~IsNaN(a) /\ ~IsNaN(b) /\ a = b
Gt(a, b) == Lt(b, a)
Le(a, b) == Lt(a, b) \/ Eq(a, b)
Ge(a, b) == Lt(b, a) \/ Eq(a, b)

Neg(a) == <<-a[1], a[2]>>

Add(a, b) ==
  IF IsNaN(a) \/ IsNaN(b) THEN NaN
  ELSE IF IsInf(a) /\ IsInf(b) THEN (IF a = b THEN a ELSE NaN)
  ELSE IF IsInf(a) THEN a
  ELSE IF IsInf(b) THEN b
  ELSE Frac(a[1] * b[2] + b[1] * a[2], a[2] * b[2])

Sub(a, b) == Add(a, Neg(b))

Mul(a, b) ==
  IF IsNaN(a) \/ IsNaN(b) THEN NaN
  ELSE IF IsInf(a) \/ IsInf(b)
       THEN <<Sign(a[1]) * Sign(b[1]), 0>>
       ELSE Frac(a[1] * b[1], a[2] * b[2])

Div(a, b) ==
  IF IsNaN(a) \/ IsNaN(b) THEN NaN
  ELSE IF IsInf(a) /\ IsInf(b) THEN NaN
  ELSE IF IsInf(b) THEN Num(0)
  ELSE IF IsInf(a) THEN <<Sign(a[1]) * (IF b[1] < 0 THEN -1 ELSE 1), 0>>
  ELSE IF b[1] = 0 THEN <<Sign(a[1]), 0>>
  ELSE Frac(a[1] * b[2], a[2] * b[1])

(* ---- tagged values: what an outputRange entry or a node value can be ---- *)
NumV(a) == [k |-> "num", v |-> a]

(* ---- easing ---- *)
linear(t) == t

Ease(easing, t) ==
  IF easing = "undefined" THEN linear(t)
  ELSE IF easing = "quad" THEN Mul(t, t)
  ELSE Sub(Num(1), t)

(* ---- findRange ---- *)
RECURSIVE findRangeFrom(_, _, _)
findRangeFrom(i, input, inputRange) ==
  IF i < Len(inputRange) - 1 /\ ~Ge(inputRange[i + 1], input)
  THEN findRangeFrom(i + 1, input, inputRange)
  ELSE i

\* variant: a scan that breaks on > instead of >= (ties go to the upper segment)
RECURSIVE findRangeStrictFrom(_, _, _)
findRangeStrictFrom(i, input, inputRange) ==
  IF i < Len(inputRange) - 1 /\ ~Gt(inputRange[i + 1], input)
  THEN findRangeStrictFrom(i + 1, input, inputRange)
  ELSE i

findRangeUpperBiased(input, inputRange) ==
  findRangeStrictFrom(1, input, inputRange) - 1

\* variant: the scan runs over the last position as well (i < length)
findRangeToEnd(input, inputRange) == (CHOOSE i \in 1..Len(inputRange) : (i = Len(inputRange) \/ Ge(inputRange[i + 1], input)) /\ \A j \in 1..(i - 1) : ~Ge(inputRange[j + 1], input)) - 1

\* The loop runs i = 1 .. over 0-based positions; position i is sequence
\* index i + 1.  The result is the 0-based segment index i - 1.
findRange(input, inputRange) == findRangeFrom(1, input, inputRange) - 1

(* ---- interpolate (scripting tier) ---- *)
Ret(val, dz) == [ret |-> val, divByZero |-> dz]

\* variant: the identity policy does not return early on the left
returnsLeftNever(result, inputMin, extrapolateLeft) == FALSE

\* if (result < inputMin) { identity: return result; clamp: result = inputMin }
returnsLeft(result, inputMin, extrapolateLeft) ==
  Lt(result, inputMin) /\ extrapolateLeft = "identity"

\* variant: clamp on the left is a no-op, as extend is
clampLeftNoop(result, inputMin, extrapolateLeft) == result

clampLeft(result, inputMin, extrapolateLeft) ==
  IF Lt(result, inputMin) /\ extrapolateLeft = "clamp" THEN inputMin ELSE result

\* variant: clamp on the right is a no-op, as extend is
clampRightNoop(result, inputMax, extrapolateRight) == result

\* if (result > inputMax) { identity: return result; clamp: result = inputMax }
returnsRight(result, inputMax, extrapolateRight) ==
  Gt(result, inputMax) /\ extrapolateRight = "identity"

clampRight(result, inputMax, extrapolateRight) ==
  IF Gt(result, inputMax) /\ extrapolateRight = "clamp" THEN inputMax ELSE result

\* variant: the step is taken at inputMin itself (< instead of <=)
zeroWidthStrict(input, inputMin, outputMin, outputMax) ==
  IF Lt(input, inputMin) THEN outputMin ELSE outputMax

\* if (inputMin === inputMax) { if (input <= inputMin) return outputMin; return outputMax }
zeroWidth(input, inputMin, outputMin, outputMax) ==
  IF Le(input, inputMin) THEN outputMin ELSE outputMax

\* // Input Range
normalize(result, inputMin, inputMax) ==
  IF Eq(inputMin, NegInf) THEN Neg(result)
  ELSE IF Eq(inputMax, PosInf) THEN Sub(result, inputMin)
  ELSE Div(Sub(result, inputMin), Sub(inputMax, inputMin))

\* variant: the output offset is left out
denormalizeNoOffset(result, outputMin, outputMax) ==
  IF Eq(outputMin, NegInf) THEN Neg(result)
  ELSE IF Eq(outputMax, PosInf) THEN Add(result, outputMin)
  ELSE Mul(result, Sub(outputMax, outputMin))

\* // Output Range
denormalize(result, outputMin, outputMax) ==
  IF Eq(outputMin, NegInf) THEN Neg(result)
  ELSE IF Eq(outputMax, PosInf) THEN Add(result, outputMin)
  ELSE Add(Mul(result, Sub(outputMax, outputMin)), outputMin)

interpolate(input, inputMin, inputMax, outputMin, outputMax, easing, extrapolateLeft, extrapolateRight) ==
  LET r1 == clampLeft(input, inputMin, extrapolateLeft)
      r2 == clampRight(r1, inputMax, extrapolateRight)
      divided == ~Eq(inputMin, NegInf) /\ ~Eq(inputMax, PosInf)
      r3 == normalize(r2, inputMin, inputMax)
      r4 == Ease(easing, r3)
      r5 == denormalize(r4, outputMin, outputMax)
  IN  IF returnsLeft(input, inputMin, extrapolateLeft)
        THEN Ret(input, FALSE)
      ELSE IF returnsRight(r1, inputMax, extrapolateRight)
        THEN Ret(r1, FALSE)
      ELSE IF Eq(outputMin, outputMax)
        THEN Ret(outputMin, FALSE)
      ELSE IF Eq(inputMin, inputMax)
        THEN Ret(zeroWidth(input, inputMin, outputMin, outputMax), FALSE)
      ELSE Ret(r5, divided /\ Eq(Sub(inputMax, inputMin), Num(0)))

(* ---- strings: a string is a sequence of one-character strings ---- *)
Digits == <<"0", "1", "2", "3", "4", "5", "6", "7", "8", "9">>
IsDigit(c) == \E d \in 1..10 : Digits[d] = c
DigitVal(c) == (CHOOSE d \in 1..10 : Digits[d] = c) - 1

\* stringShapeRegex = /[0-9\.-]+/g
IsShape(c) == IsDigit(c) \/ c = "." \/ c = "-"

\* str.match(stringShapeRegex): the maximal runs, left to right (<<>> is null)
RECURSIVE matchFrom(_, _, _, _)
matchFrom(str, i, cur, acc) ==
  IF i > Len(str) THEN (IF cur = <<>> THEN acc ELSE Append(acc, cur))
  ELSE IF IsShape(str[i]) THEN matchFrom(str, i + 1, Append(cur, str[i]), acc)
  ELSE matchFrom(str, i + 1, <<>>, IF cur = <<>> THEN acc ELSE Append(acc, cur))

match(str) == matchFrom(str, 1, <<>>, <<>>)

\* str.replace(stringShapeRegex, f): the k-th run becomes reps[k]
RECURSIVE replaceFrom(_, _, _, _, _, _)
replaceFrom(str, reps, i, inRun, k, acc) ==
  IF i > Len(str) THEN acc
  ELSE IF IsShape(str[i])
       THEN IF inRun THEN replaceFrom(str, reps, i + 1, TRUE, k, acc)
            ELSE replaceFrom(str, reps, i + 1, TRUE, k + 1, acc \o reps[k + 1])
       ELSE replaceFrom(str, reps, i + 1, FALSE, k, Append(acc, str[i]))

replace(str, reps) == replaceFrom(str, reps, 1, FALSE, 0, <<>>)

\* str.replace(stringShapeRegex, '')
Skeleton(str) == replace(str, [k \in 1..Len(match(str)) |-> <<>>])

RECURSIVE Pow10(_)
Pow10(k) == IF k = 0 THEN 1 ELSE 10 * Pow10(k - 1)

RECURSIVE DigitsVal(_)
DigitsVal(ds) ==
  IF ds = <<>> THEN 0
  ELSE 10 * DigitsVal(SubSeq(ds, 1, Len(ds) - 1)) + DigitVal(ds[Len(ds)])

\* a decimal literal without sign: digits, at most one point, at least one digit
UnsignedNumber(tok) ==
  LET dots == {i \in 1..Len(tok) : tok[i] = "."}
      ok == /\ \A i \in 1..Len(tok) : IsDigit(tok[i]) \/ tok[i] = "."
            /\ Cardinality(dots) <= 1
            /\ \E i \in 1..Len(tok) : IsDigit(tok[i])
      dot == IF dots = {} THEN Len(tok) + 1 ELSE CHOOSE i \in dots : TRUE
      whole == SubSeq(tok, 1, dot - 1)
      part == SubSeq(tok, dot + 1, Len(tok))
  IN  IF ~ok THEN NaN
      ELSE Frac(DigitsVal(whole) * Pow10(Len(part)) + DigitsVal(part), Pow10(Len(part)))

\* +number, for a run of digits, points and minus signs
ToNumber(tok) ==
  IF tok # <<>> /\ tok[1] = "-"
  THEN Neg(UnsignedNumber(SubSeq(tok, 2, Len(tok))))
  ELSE UnsignedNumber(tok)

\* Math.round
MathRound(a) ==
  IF ~IsFinite(a) THEN a ELSE Num((2 * a[1] + a[2]) \div (2 * a[2]))

RECURSIVE NatToString(_)
NatToString(n) ==
  IF n < 10 THEN <<Digits[n + 1]>>
  ELSE Append(NatToString(n \div 10), Digits[(n % 10) + 1])

\* the three decimals m (0..999) without trailing zeros
Decimals(m) ==
  LET d3 == <<Digits[(m \div 100) + 1], Digits[((m \div 10) % 10) + 1], Digits[(m % 10) + 1]>>
  IN  IF m % 10 # 0 THEN d3
      ELSE IF m % 100 # 0 THEN SubSeq(d3, 1, 2)
      ELSE SubSeq(d3, 1, 1)

\* String(number), for a number with at most three decimals
NumberToString(a) ==
  IF IsNaN(a) THEN <<"N", "a", "N">>
  ELSE IF a = PosInf THEN <<"I", "n", "f", "i", "n", "i", "t", "y">>
  ELSE IF a = NegInf THEN <<"-", "I", "n", "f", "i", "n", "i", "t", "y">>
  ELSE LET thousandths == (Abs(a[1]) * 1000) \div a[2]
           whole == thousandths \div 1000
           part == thousandths % 1000
       IN  (IF a[1] < 0 THEN <<"-">> ELSE <<>>)
             \o NatToString(whole)
             \o (IF part = 0 THEN <<>> ELSE <<".">> \o Decimals(part))

StrV(str) == [k |-> "str", v |-> str]

\* normalizeColor, an external collaborator: the packed 0xRRGGBBAA of a colour
\* name, held as its four bytes <<RR, GG, BB, AA>>; <<>> (null) for a string
\* that is no colour
normalizeColor(input) ==
  IF input = <<"r", "e", "d">> THEN <<255, 0, 0, 255>>
  ELSE IF input = <<"b", "l", "u", "e">> THEN <<0, 0, 255, 255>>
  ELSE IF input = <<"r", "g", "b", "a", "(", "0", ",", "0", ",", "0", ",", "0", ")">> THEN <<0, 0, 0, 0>>
  ELSE IF input = <<"r", "g", "b", "a", "(", "2", "5", "5", ",", "2", "5", "5", ",", "2", "5", "5", ",", "1", ")">>
    THEN <<255, 255, 255, 255>>
  ELSE <<>>

colorToRgba(input) ==
  LET int32Color == normalizeColor(input)
      r == int32Color[1]
      g == int32Color[2]
      b == int32Color[3]
      a == Frac(int32Color[4], 255)
  IN  IF int32Color = <<>> THEN input
      ELSE <<"r", "g", "b", "a", "(">> \o NumberToString(Num(r)) \o <<",", " ">>
             \o NumberToString(Num(g)) \o <<",", " ">>
             \o NumberToString(Num(b)) \o <<",", " ">>
             \o NumberToString(a) \o <<")">>

\* range.startsWith('rgb')
isRgbOrRgba(range) == Len(range) >= 3 /\ SubSeq(range, 1, 3) = <<"r", "g", "b">>

(* ---- configuration checks ---- *)
Undefined == "undefined"

\* failed invariant(...) or a thrown TypeError: the construction raises
NotBuilt ==
  [st |-> "none", err |-> "", shape |-> "none",
   inputRange |-> <<>>, outputRange |-> <<>>, easing |-> Undefined,
   extrapolateLeft |-> "extend", extrapolateRight |-> "extend",
   template |-> <<>>, interpolations |-> <<>>, shouldRound |-> FALSE]

Fail(msg) == [NotBuilt EXCEPT !.st = "error", !.err = msg]

IsNumEntry(e, a) == e.k = "num" /\ Eq(e.v, a)

\* "" when the check passes, the message of the failed invariant otherwise
checkInfiniteRange(name, arr) ==
  IF ~(Len(arr) >= 2) THEN "must have at least 2 elements"
  ELSE IF ~(Len(arr) # 2 \/ ~IsNumEntry(arr[1], NegInf) \/ ~IsNumEntry(arr[2], PosInf))
       THEN "cannot be ]-infinity;+infinity["
       ELSE ""

\* variant: only the length of inputRange is checked
checkValidInputRangeLengthOnly(arr) ==
  IF ~(Len(arr) >= 2) THEN "inputRange must have at least 2 elements" ELSE ""

checkValidInputRange(arr) ==
  IF ~(Len(arr) >= 2) THEN "inputRange must have at least 2 elements"
  ELSE IF \E i \in 2..Len(arr) : ~Ge(arr[i], arr[i - 1])
       THEN "inputRange must be monotonically increasing"
       ELSE ""

AsEntries(nums) == [i \in 1..Len(nums) |-> NumV(nums[i])]

(* ---- createInterpolation, numeric outputRange ---- *)
createNumericInterpolation(cfg) ==
  LET outputRange == cfg.outputRange
      inputRange == cfg.inputRange
      extrapolateLeft ==
        IF cfg.extrapolateLeft # Undefined THEN cfg.extrapolateLeft
        ELSE IF cfg.extrapolate # Undefined THEN cfg.extrapolate
        ELSE "extend"
      extrapolateRight ==
        IF cfg.extrapolateRight # Undefined THEN cfg.extrapolateRight
        ELSE IF cfg.extrapolate # Undefined THEN cfg.extrapolate
        ELSE "extend"
  IN  IF checkInfiniteRange("outputRange", outputRange) # ""
        THEN Fail(checkInfiniteRange("outputRange", outputRange))
      ELSE IF checkInfiniteRange("inputRange", AsEntries(inputRange)) # ""
        THEN Fail(checkInfiniteRange("inputRange", AsEntries(inputRange)))
      ELSE IF checkValidInputRange(inputRange) # ""
        THEN Fail(checkValidInputRange(inputRange))
      ELSE IF Len(inputRange) # Len(outputRange)
        THEN Fail("must have the same length")
      ELSE [NotBuilt EXCEPT
              !.st = "ok", !.shape = "number",
              !.inputRange = inputRange, !.outputRange = outputRange,
              !.easing = cfg.easing,
              !.extrapolateLeft = extrapolateLeft,
              !.extrapolateRight = extrapolateRight]

(* ---- createInterpolationFromStringOutputRange ---- *)
\* checkPattern
checkPatternNone(arr) == ""

checkPattern(arr) ==
  IF \E i \in 2..Len(arr) : Skeleton(arr[1]) # Skeleton(arr[i])
  THEN "invalid pattern"
  ELSE ""

\* outputRanges[i]: the i-th number of every string that has one, in order
RECURSIVE channelFrom(_, _, _)
channelFrom(outputRange, i, j) ==
  IF j > Len(outputRange) THEN <<>>
  ELSE (IF Len(match(outputRange[j])) >= i
        THEN <<ToNumber(match(outputRange[j])[i])>>
        ELSE <<>>) \o channelFrom(outputRange, i, j + 1)

\* the first failed construction among the channels, "" if none failed
FirstError(ms) ==
  IF \A i \in 1..Len(ms) : ms[i].st = "ok" THEN ""
  ELSE ms[CHOOSE i \in 1..Len(ms) :
            ms[i].st # "ok" /\ \A j \in 1..(i - 1) : ms[j].st = "ok"].err

\* applied to an outputRange of strings only
createInterpolationFromStringOutputRange(cfg) ==
  LET outputRange ==
        [j \in 1..Len(cfg.outputRange) |-> colorToRgba(cfg.outputRange[j].v)]
      channels == Len(match(outputRange[1]))
      interpolations ==
        [i \in 1..channels |->
           createNumericInterpolation(
             [cfg EXCEPT !.outputRange = AsEntries(channelFrom(outputRange, i, 1))])]
  IN  IF ~(Len(outputRange) >= 2) THEN Fail("Bad output range")
      ELSE IF checkPattern(outputRange) # "" THEN Fail(checkPattern(outputRange))
      ELSE IF channels = 0
        THEN Fail("TypeError: null has no map")
      ELSE IF \E j \in 1..Len(outputRange) : Len(match(outputRange[j])) = 0
        THEN Fail("TypeError: null has no forEach")
      ELSE IF \E j \in 1..Len(outputRange) : Len(match(outputRange[j])) > channels
        THEN Fail("TypeError: undefined has no push")
      ELSE IF FirstError(interpolations) # ""
        THEN Fail(FirstError(interpolations))
      ELSE [NotBuilt EXCEPT
              !.st = "ok", !.shape = "string",
              !.template = outputRange[1],
              !.interpolations = interpolations,
              !.shouldRound = isRgbOrRgba(outputRange[1])]

createInterpolation(cfg) ==
  IF Len(cfg.outputRange) > 0 /\ cfg.outputRange[1].k = "str"
  THEN createInterpolationFromStringOutputRange(cfg)
  ELSE createNumericInterpolation(cfg)

(* ---- the graph: node 1 is this._parent, the others are value nodes ---- *)
Parent == 1
Nodes == 1..3

NodeV(n) == [k |-> "node", v |-> Num(n)]
OtherV == [k |-> "other", v |-> NaN]
parentValue == nodeValue[Parent]

(* ---- the mapper returned by createInterpolation ---- *)
Value(val, range, dz) ==
  [st |-> "value", val |-> val, err |-> "", range |-> range, divByZero |-> dz]
Throw(msg) ==
  [st |-> "error", val |-> NumV(NaN), err |-> msg, range |-> -1, divByZero |-> FALSE]
NoOut ==
  [st |-> "none", val |-> NumV(NaN), err |-> "", range |-> -1, divByZero |-> FALSE]

\* outputStart instanceof AnimatedNode ? outputStart.__getValue() : outputStart
EntryValueOfTag(e, values) ==
  IF e.k = "num" \/ e.k = "node" THEN e.v ELSE NaN

\* (an entry that is neither behaves as NaN in the arithmetic)
EntryValue(e, values) ==
  IF e.k = "num" THEN e.v
  ELSE IF e.k = "node" THEN values[e.v[1]].v
  ELSE NaN

Segment(m, input, values) ==
  LET range == findRange(input, m.inputRange)
  IN  [range |-> range,
       inputMin |-> m.inputRange[range + 1],
       inputMax |-> m.inputRange[range + 2],
       outputMin |-> EntryValue(m.outputRange[range + 1], values),
       outputMax |-> EntryValue(m.outputRange[range + 2], values)]

NumberMapper(m, input, values) ==
  IF input.k # "num"
  THEN Throw("Cannot interpolation an input which is not a number")
  ELSE LET s == Segment(m, input.v, values)
           r == interpolate(input.v, s.inputMin, s.inputMax, s.outputMin,
                            s.outputMax, m.easing, m.extrapolateLeft,
                            m.extrapolateRight)
       IN  Value(NumV(r.ret), s.range, r.divByZero)

RoundedFirstFour(val, i, shouldRound) ==
  IF shouldRound /\ i <= 4 THEN MathRound(val)
  ELSE Div(MathRound(Mul(val, Num(1000))), Num(1000))

\* shouldRound && i < 4 ? Math.round(val) : Math.round(val * 1000) / 1000
\* (i is the channel's 1-based position: it was incremented before the test)
Rounded(val, i, shouldRound) ==
  IF shouldRound /\ i < 4 THEN MathRound(val)
  ELSE Div(MathRound(Mul(val, Num(1000))), Num(1000))

StringMapper(m, input, values) ==
  LET outs == [i \in 1..Len(m.interpolations) |->
                 NumberMapper(m.interpolations[i], input, values)]
  IN  IF outs[1].st = "error" THEN outs[1]
      ELSE Value(StrV(replace(m.template,
                        [i \in 1..Len(outs) |->
                           NumberToString(Rounded(outs[i].val.v, i, m.shouldRound))])),
                 outs[1].range,
                 \E i \in 1..Len(outs) : outs[i].divByZero)

Mapper(m, input, values) ==
  IF m.shape = "string" THEN StringMapper(m, input, values)
  ELSE NumberMapper(m, input, values)

(* ---- AnimatedInterpolation ---- *)
\* constructor: this._interpolation = createInterpolation(config)
Construct ==
  /\ interpolation.st = "none"
  /\ interpolation' = createInterpolation(config)
  /\ UNCHANGED <<config, nodeValue, jsOut, nativeConfig, nativeVars, graphVars>>

\* __getValue
GetValue ==
  /\ interpolation.st = "ok"
  /\ jsOut' = IF parentValue.k # "num"
              THEN Throw("Cannot interpolate an input which is not a number.")
              ELSE Mapper(interpolation, parentValue, nodeValue)
  /\ UNCHANGED <<config, interpolation, nodeValue, nativeConfig, nativeVars, graphVars>>

(* ---- the graph protocol of the interpolation node ---- *)
\* the interpolation node itself (const self = this)
Self == 4

Range(seq) == {seq[i] : i \in 1..Len(seq)}

\* this._config.outputRange.filter(isAnimatedNode), as node ids
nodeEntries(range) ==
  LET picked == SelectSeq(range, LAMBDA e : e.k = "node")
  IN  [i \in 1..Len(picked) |-> picked[i].v[1]]

\* the nodes __makeNative, __attach and __detach visit, in their order:
\* this._parent, then the node-valued entries of outputRange
dependencies(cfg) == <<Parent>> \o nodeEntries(cfg.outputRange)

\* the nodes a node of the graph visits: the interpolation node its
\* dependencies, a derived value node the node it derives from
visits(n, up, cfg) ==
  IF n = Self THEN dependencies(cfg)
  ELSE IF up[n] = 0 THEN <<>> ELSE <<up[n]>>

\* the base class's __makeNative: marks the node once
superMakeNative(n, log) == IF n \in Range(log) THEN log ELSE Append(log, n)

RECURSIVE makeNative(_, _, _, _)
RECURSIVE makeNativeEach(_, _, _, _)
makeNativeEach(ds, up, cfg, log) ==
  IF ds = <<>> THEN log
  ELSE makeNativeEach(Tail(ds), up, cfg, makeNative(Head(ds), up, cfg, log))

makeNativeSelfFirst(n, up, cfg, log) ==
  makeNativeEach(visits(n, up, cfg), up, cfg, superMakeNative(n, log))

\* __makeNative: the parent, then the node-valued entries, then super
makeNative(n, up, cfg, log) ==
  superMakeNative(n, makeNativeEach(visits(n, up, cfg), up, cfg, log))

\* the base class's __addChild / __removeChild on a node's ordered child set
addChild(ch, n, child) ==
  IF child \in Range(ch[n]) THEN ch ELSE [ch EXCEPT ![n] = Append(@, child)]

removeChild(ch, n, child) ==
  [ch EXCEPT ![n] = SelectSeq(@, LAMBDA c : c # child)]

RECURSIVE addChildEach(_, _, _)
addChildEach(ds, ch, child) ==
  IF ds = <<>> THEN ch ELSE addChildEach(Tail(ds), addChild(ch, Head(ds), child), child)

RECURSIVE removeChildEach(_, _, _)
removeChildEach(ds, ch, child) ==
  IF ds = <<>> THEN ch
  ELSE removeChildEach(Tail(ds), removeChild(ch, Head(ds), child), child)

\* __attach
attach(cfg, ch) == addChildEach(dependencies(cfg), ch, Self)

detachParentOnly(cfg, ch) == removeChild(ch, Parent, Self)

\* __detach, up to the call of super.__detach()
detach(cfg, ch) == removeChildEach(dependencies(cfg), ch, Self)

Attach ==
  /\ interpolation.st = "ok"
  /\ lifecycle # "attached"
  /\ children' = attach(config, children)
  /\ lifecycle' = "attached"
  /\ UNCHANGED <<jsVars, nativeConfig, nativeVars, upstream, promoted, teardown>>

\* __detach: the edges go first, then super.__detach() tears down the native
\* counterpart of a promoted node, which can fail
Detach ==
  /\ lifecycle = "attached"
  /\ children' = detach(config, children)
  /\ lifecycle' = "detached"
  /\ \E outcome \in IF Self \in Range(promoted) THEN {"ok", "failed"} ELSE {"ok"} :
       teardown' = outcome
  /\ UNCHANGED <<jsVars, nativeConfig, nativeVars, upstream, promoted>>

\* __makeNative of the interpolation node or of one of the value nodes
MakeNative ==
  /\ interpolation.st = "ok"
  /\ \E n \in Nodes \cup {Self} :
       /\ n \notin Range(promoted)
       /\ promoted' = makeNative(n, upstream, config, promoted)
  /\ UNCHANGED <<jsVars, nativeConfig, nativeVars, upstream, children, lifecycle, teardown>>

\* a driver changes the value of a value node; what the previous __getValue
\* returned is no longer the outcome of a call on the current values
SetValue ==
  /\ \E n \in Nodes, v \in {NumV(Num(0)), NumV(Num(1)), NumV(Num(10))} :
       /\ nodeValue[n] # v
       /\ nodeValue' = [nodeValue EXCEPT ![n] = v]
  /\ jsOut' = NoOut
  /\ UNCHANGED <<config, interpolation, nativeConfig, nativeVars, graphVars>>

\* value || fallback, for strings: undefined and '' are falsy
OrElse(a, b) == IF a = Undefined \/ a = "" THEN b ELSE a

\* parseFloat on the strings of the model: leading blanks, an optional sign,
\* then the longest decimal prefix; NaN when there is none
parseFloat(str) ==
  LET blanks == {i \in 0..Len(str) : \A j \in 1..i : str[j] = " "}
      from == CHOOSE i \in blanks : \A j \in blanks : j <= i
      t == SubSeq(str, from + 1, Len(str))
      body == IF t # <<>> /\ t[1] = "+" THEN Tail(t) ELSE t
      ends == {n \in 1..Len(body) : ~IsNaN(ToNumber(SubSeq(body, 1, n)))}
  IN  IF ends = {} THEN NaN
      ELSE ToNumber(SubSeq(body, 1, CHOOSE n \in ends : \A m \in ends : m <= n))

EndsWithDegNever(str) == FALSE

\* /deg$/
EndsWithDeg(str) ==
  Len(str) >= 3 /\ SubSeq(str, Len(str) - 2, Len(str)) = <<"d", "e", "g">>

\* Math.PI, as the rational 355/113
MathPI == Frac(355, 113)

\* x || 0 on a number
OrZero(x) == IF IsNaN(x) \/ Eq(x, Num(0)) THEN Num(0) ELSE x

\* __getNativeTag: the native identifier of a promoted node is its id; a
\* node that is not promoted has none (0)
getNativeTag(n, log) == IF n \in Range(log) THEN n ELSE 0

\* one entry of __transformOutputRange; invariant(true, ...) never fails, so
\* an entry of no known kind is exported as 0
transformEntry(e, log) ==
  IF e.k = "str" /\ EndsWithDeg(e.v)
  THEN [st |-> "ok", v |-> Div(Mul(OrZero(parseFloat(e.v)), MathPI), Num(180))]
  ELSE IF e.k = "str" THEN [st |-> "ok", v |-> OrZero(parseFloat(e.v))]
  ELSE IF e.k = "num" THEN [st |-> "ok", v |-> e.v]
  ELSE IF e.k = "node"
  THEN IF getNativeTag(e.v[1], log) = 0
       THEN [st |-> "error", v |-> NaN]
       ELSE [st |-> "ok", v |-> Num(getNativeTag(e.v[1], log))]
  ELSE [st |-> "ok", v |-> Num(0)]

\* range.map: the first failing entry ends the export
transformOutputRange(range, log) ==
  LET out == [i \in 1..Len(range) |-> transformEntry(range[i], log)]
  IN  IF \E i \in 1..Len(range) : out[i].st = "error"
      THEN [st |-> "error", v |-> <<>>]
      ELSE [st |-> "ok", v |-> [i \in 1..Len(range) |-> out[i].v]]

NoConfig ==
  [st |-> "none", parent |-> 0, inputRange |-> <<>>, outputRange |-> <<>>,
   isOutputRangeAnimations |-> FALSE, extrapolateLeft |-> "",
   extrapolateRight |-> "", type |-> ""]

\* __getNativeConfig (production build: __DEV__ is false)
getNativeConfig(cfg, log) ==
  IF transformOutputRange(cfg.outputRange, log).st = "error"
  THEN [NoConfig EXCEPT !.st = "error"]
  ELSE
  [st |-> "ok",
   parent |-> getNativeTag(Parent, log),
   inputRange |-> cfg.inputRange,
   outputRange |-> transformOutputRange(cfg.outputRange, log).v,
   isOutputRangeAnimations |->
     (Len(cfg.outputRange) > 0 /\ cfg.outputRange[1].k = "node"),
   extrapolateLeft |->
     OrElse(OrElse(cfg.extrapolateLeft, cfg.extrapolate), "extend"),
   extrapolateRight |->
     OrElse(OrElse(cfg.extrapolateRight, cfg.extrapolate), "extend"),
   type |-> "interpolation"]

GetNativeConfig ==
  /\ interpolation.st = "ok"
  /\ nativeConfig.st = "none"
  /\ nativeConfig' = getNativeConfig(config, promoted)
  /\ UNCHANGED <<jsVars, nativeVars, graphVars>>

(* ---- InterpolationAnimatedNode (native tier) ---- *)
RECURSIVE findRangeIndexFrom(_, _, _)
findRangeIndexFrom(index, value, ranges) ==
  IF index < Len(ranges) - 1 /\ ~Ge(ranges[index + 1], value)
  THEN findRangeIndexFrom(index + 1, value, ranges)
  ELSE index

findRangeIndex(value, ranges) == findRangeIndexFrom(1, value, ranges) - 1

NRet(val) == [st |-> "ok", ret |-> val, err |-> ""]
NThrow(msg) == [st |-> "error", ret |-> NaN, err |-> msg]

IsMode(m) == m \in {"identity", "clamp", "extend"}

\* private static double interpolate(value, inputMin, ..., extrapolateRight)
nativeInterpolate(value, inputMin, inputMax, outputMin, outputMax, extrapolateLeft, extrapolateRight) ==
  LET r1 == IF Lt(value, inputMin) /\ extrapolateLeft = "clamp"
            THEN inputMin ELSE value
      r2 == IF Gt(r1, inputMax) /\ extrapolateRight = "clamp"
            THEN inputMax ELSE r1
  IN  IF Lt(value, inputMin) /\ extrapolateLeft = "identity"
        THEN NRet(value)
      ELSE IF Lt(value, inputMin) /\ ~IsMode(extrapolateLeft)
        THEN NThrow("Invalid extrapolation type for left extrapolation")
      ELSE IF Gt(r1, inputMax) /\ extrapolateRight = "identity"
        THEN NRet(r1)
      ELSE IF Gt(r1, inputMax) /\ ~IsMode(extrapolateRight)
        THEN NThrow("Invalid extrapolation type for right extrapolation")
      ELSE NRet(Add(outputMin,
                    Div(Mul(Sub(outputMax, outputMin), Sub(r2, inputMin)),
                        Sub(inputMax, inputMin))))

\* NativeAnimatedNodesManager.getNodeById: the registered node, or null
NoNode == [kind |-> "null", value |-> NaN]
getNodeById(reg, id) == IF id \in DOMAIN reg THEN reg[id] ELSE NoNode

\* ReadableArray.getInt on a number
ToInt(a) == IF IsFinite(a) THEN a[1] \div a[2] ELSE 0

\* static double interpolate(value, inputRange, outputRange, outputRangeAnimations, ...)
nativeInterpolateRanges(value, nd, reg) ==
  LET rangeIndex == findRangeIndex(value, nd.mInputRange)
      outputStart == getNodeById(reg, nd.mOutputRangeAnimations[rangeIndex + 1])
      outputEnd == getNodeById(reg, nd.mOutputRangeAnimations[rangeIndex + 2])
      startIsInvalid == outputStart.kind # "value"
      endIsInvalid == outputEnd.kind # "value"
  IN  IF nd.mOutputRangeAnimations # <<>>
      THEN IF startIsInvalid \/ endIsInvalid
           THEN NThrow("Illegal node ID set in outputRange of Animated.interpolate node")
           ELSE nativeInterpolate(value, nd.mInputRange[rangeIndex + 1],
                                  nd.mInputRange[rangeIndex + 2],
                                  outputStart.value, outputEnd.value,
                                  nd.mExtrapolateLeft, nd.mExtrapolateRight)
      ELSE nativeInterpolate(value, nd.mInputRange[rangeIndex + 1],
                             nd.mInputRange[rangeIndex + 2],
                             nd.mOutputRange[rangeIndex + 1],
                             nd.mOutputRange[rangeIndex + 2],
                             nd.mExtrapolateLeft, nd.mExtrapolateRight)

NoNative ==
  [st |-> "none", err |-> "", mParent |-> 0, mInputRange |-> <<>>,
   mOutputRange |-> <<>>, mOutputRangeAnimations |-> <<>>,
   mExtrapolateLeft |-> "", mExtrapolateRight |-> ""]

\* the constructor; mParent 0 is null.  The cast to ValueAnimatedNode lets
\* null through and throws on a node of another kind.
newInterpolationAnimatedNode(cfg, reg) ==
  LET p == getNodeById(reg, cfg.parent)
  IN  IF p.kind = "other"
      THEN [NoNative EXCEPT !.st = "error", !.err = "ClassCastException"]
      ELSE [st |-> "ok", err |-> "",
            mParent |-> IF p.kind = "null" THEN 0 ELSE cfg.parent,
            mInputRange |-> cfg.inputRange,
            mOutputRange |->
              IF cfg.isOutputRangeAnimations THEN <<>> ELSE cfg.outputRange,
            mOutputRangeAnimations |->
              IF cfg.isOutputRangeAnimations
              THEN [i \in 1..Len(cfg.outputRange) |-> ToInt(cfg.outputRange[i])]
              ELSE <<>>,
            mExtrapolateLeft |-> cfg.extrapolateLeft,
            mExtrapolateRight |-> cfg.extrapolateRight]

NativeConstruct ==
  /\ nativeConfig.st = "ok"
  /\ native.st = "none"
  /\ native' = newInterpolationAnimatedNode(nativeConfig, registry)
  /\ UNCHANGED <<jsVars, nativeConfig, registry, mValue, nativeOut, graphVars>>

NOut(st, range, err) == [st |-> st, range |-> range, err |-> err]

\* update()
NativeUpdate ==
  /\ native.st = "ok"
  /\ IF native.mParent = 0
     THEN /\ nativeOut' = NOut("skipped", -1, "")
          /\ UNCHANGED mValue
     ELSE LET value == registry[native.mParent].value
              r == nativeInterpolateRanges(value, native, registry)
          IN  IF r.st = "ok"
              THEN /\ mValue' = r.ret
                   /\ nativeOut' =
                        NOut("updated", findRangeIndex(value, native.mInputRange), "")
              ELSE /\ nativeOut' = NOut("error", -1, r.err)
                   /\ UNCHANGED mValue
  /\ UNCHANGED <<jsVars, nativeConfig, registry, native, graphVars>>

(* ---- inputs ---- *)
Modes == {"extend", "clamp", "identity"}
Easings == {Undefined, "quad", "flip"}

FiniteVals == {Num(n) : n \in 0..MaxVal}
InVals == FiniteVals \cup {NegInf, PosInf}
OutVals == {Num(0), Num(10)}

SeqsOf(S, lo, hi) == UNION {[1..n -> S] : n \in lo..hi}

NonDecreasing(r) == \A i \in 2..Len(r) : Ge(r[i], r[i - 1])

\* below, on, between and above the finite boundaries
Inputs ==
  {Num(-1), Num(MaxVal + 1)} \cup FiniteVals
    \cup {Frac(2 * n + 1, 2) : n \in 0..(MaxVal - 1)}


\* non-decreasing input ranges; an infinite bound only at either end
InRanges ==
  {r \in SeqsOf(InVals, 2, MaxLen) :
     /\ NonDecreasing(r)
     /\ \A i \in 1..Len(r) : (r[i] = NegInf => i = 1) /\ (r[i] = PosInf => i = Len(r))}

\* finite output ranges, and some with an infinite end
InfiniteEnds(n) ==
  {[i \in 1..n |-> IF i = 1 THEN NegInf ELSE Num(0)],
   [i \in 1..n |-> IF i = n THEN PosInf ELSE Num(0)]}

OutRanges == SeqsOf(OutVals, 2, MaxLen) \cup UNION {InfiniteEnds(n) : n \in 2..MaxLen}

MapConfigs ==
  {[inputRange |-> ir, outputRange |-> AsEntries(orng), easing |-> e,
    extrapolate |-> Undefined, extrapolateLeft |-> eL, extrapolateRight |-> eR] :
     ir \in InRanges,
     orng \in OutRanges,
     e \in Easings, eL \in Modes, eR \in Modes}

\* the native registry mirrors the promoted value nodes of the scripting tier
Mirror(values) ==
  [n \in Nodes |->
     [kind |-> "value", value |-> IF values[n].k = "num" THEN values[n].v ELSE NaN]]

\* the tier comparison runs over the same ranges with one policy for both sides
TierConfigs ==
  {c \in MapConfigs : c.extrapolateLeft = c.extrapolateRight /\ c.easing # "flip"}

\* plain value nodes without children, all promoted beforehand
GraphPromoted ==
  /\ upstream = [n \in Nodes |-> 0]
  /\ children = [n \in Nodes |-> <<>>]
  /\ promoted = <<1, 2, 3>>
  /\ lifecycle = "created"
  /\ teardown = "none"

\* Before the node is constructed: a config from the pool, the parent's
\* value, the value nodes promoted and registered under their ids.
InitWith(pool, parentValues) ==
  /\ GraphPromoted
  /\ config \in pool
  /\ interpolation = NotBuilt
  /\ \E pv \in parentValues :
       nodeValue = [n \in Nodes |-> IF n = Parent THEN pv ELSE NumV(Num(n))]
  /\ jsOut = NoOut
  /\ nativeConfig = NoConfig
  /\ registry = Mirror(nodeValue)
  /\ native = NoNative
  /\ mValue = NaN
  /\ nativeOut = NOut("none", -1, "")

(* ---- scripting tier alone, well-formed numeric configs ---- *)
Init ==
  InitWith({c \in MapConfigs : Len(c.inputRange) = Len(c.outputRange)},
           {NumV(x) : x \in Inputs})

Next ==
  \/ Construct
  \/ GetValue

Spec == Init /\ [][Next]_vars

(* ---- both tiers from the same config and the same upstream value ---- *)
InitTier ==
  InitWith({c \in TierConfigs : Len(c.inputRange) = Len(c.outputRange)},
           {NumV(x) : x \in Inputs})

NextTier ==
  \/ Construct
  \/ GetValue
  \/ GetNativeConfig
  \/ NativeConstruct
  \/ NativeUpdate

SpecTier == InitTier /\ [][NextTier]_vars

(* ---- both tiers on configs and registries as the bridge can deliver them ---- *)
AnyModes == Modes \cup {"bogus"}

LooseOutputRanges ==
  {AsEntries(<<Num(0), Num(10)>>),
   <<NodeV(2), NodeV(3)>>,
   <<OtherV, NumV(Num(10))>>,
   AsEntries(<<Num(0), Num(10), Num(0)>>),
   <<NodeV(2), NodeV(2), NodeV(3)>>}

LooseConfigs ==
  {[inputRange |-> ir, outputRange |-> orng, easing |-> Undefined,
    extrapolate |-> Undefined, extrapolateLeft |-> eL, extrapolateRight |-> eR] :
     ir \in {<<Num(0), Num(1)>>, <<Num(0), Num(1), Num(2)>>},
     orng \in LooseOutputRanges, eL \in AnyModes, eR \in AnyModes}

\* per identifier: a value node, a node of another kind, or nothing
Registries(values) ==
  {[n \in Nodes |-> IF kinds[n] = "value" THEN Mirror(values)[n]
                     ELSE [kind |-> kinds[n], value |-> NaN]] :
     kinds \in [Nodes -> {"value", "other", "null"}]}

InitLoose ==
  /\ GraphPromoted
  /\ config \in {c \in LooseConfigs : Len(c.inputRange) = Len(c.outputRange)}
  /\ interpolation = NotBuilt
  /\ \E x \in Inputs :
       nodeValue = [n \in Nodes |-> NumV(IF n = Parent THEN x ELSE Num(10 * n))]
  /\ jsOut = NoOut
  /\ nativeConfig = NoConfig
  /\ registry \in Registries(nodeValue)
  /\ native = NoNative
  /\ mValue = NaN
  /\ nativeOut = NOut("none", -1, "")

SpecLoose == InitLoose /\ [][NextTier]_vars

(* ---- the node in its graph: attach, detach, promote, pull, export ---- *)
\* another child of the value nodes
Sibling == 5

GraphOutputRanges ==
  {AsEntries(<<Num(0), Num(10)>>),
   <<NodeV(2), NodeV(3)>>,
   <<NodeV(2), NodeV(2)>>,
   <<NodeV(1), NodeV(3)>>,
   <<NodeV(2), NumV(Num(10))>>}

GraphConfigs ==
  {[inputRange |-> <<Num(0), Num(1)>>, outputRange |-> orng, easing |-> Undefined,
    extrapolate |-> Undefined, extrapolateLeft |-> Undefined,
    extrapolateRight |-> Undefined] : orng \in GraphOutputRanges}

\* no value node derives from itself, directly or through others
Acyclic(up) ==
  \A n \in Nodes :
    /\ up[n] # n
    /\ up[n] # 0 => up[up[n]] # n
    /\ (up[n] # 0 /\ up[up[n]] # 0) => up[up[up[n]]] = 0

InitGraphWith(parentValues, ups) ==
  /\ config \in GraphConfigs
  /\ interpolation = NotBuilt
  /\ \E pv \in parentValues :
       nodeValue = [n \in Nodes |-> IF n = Parent THEN pv ELSE NumV(Num(10))]
  /\ jsOut = NoOut
  /\ nativeConfig = NoConfig
  /\ registry = Mirror(nodeValue)
  /\ native = NoNative
  /\ mValue = NaN
  /\ nativeOut = NOut("none", -1, "")
  /\ upstream \in ups
  /\ children \in {[n \in Nodes |-> <<>>], [n \in Nodes |-> <<Sibling>>]}
  /\ promoted = <<>>
  /\ lifecycle = "created"
  /\ teardown = "none"

\* edges, promotion and export over every acyclic derivation of the value nodes
InitGraph ==
  InitGraphWith({NumV(Num(0))}, {up \in [Nodes -> Nodes \cup {0}] : Acyclic(up)})

NextGraph ==
  \/ Construct
  \/ Attach
  \/ Detach
  \/ MakeNative
  \/ GetNativeConfig

SpecGraph == InitGraph /\ [][NextGraph]_vars

\* pulls between changes of the values, over plain value nodes
InitPull ==
  InitGraphWith({NumV(Num(0)), StrV(<<"1">>)}, {[n \in Nodes |-> 0]})

NextPull ==
  \/ Construct
  \/ Attach
  \/ MakeNative
  \/ SetValue
  \/ GetValue

SpecPull == InitPull /\ [][NextPull]_vars

(* ---- the extrapolation fields: absent or a mode; a side also empty ---- *)
PolicyFields == {Undefined} \cup Modes

\* (an empty side next to a clamp or identity default for both sides)
PolicyConfigs ==
  {c \in [inputRange : {<<Num(0), Num(1)>>},
          outputRange : {AsEntries(<<Num(0), Num(10)>>)},
          easing : {Undefined},
          extrapolate : PolicyFields,
          extrapolateLeft : PolicyFields \cup {""},
          extrapolateRight : PolicyFields \cup {""}] :
     (c.extrapolateLeft = "" \/ c.extrapolateRight = "")
       => c.extrapolate \in {"clamp", "identity"}}

InitPolicy == InitWith(PolicyConfigs, {NumV(x) : x \in Inputs})

NextPolicy ==
  \/ Construct
  \/ GetValue
  \/ GetNativeConfig

SpecPolicy == InitPolicy /\ [][NextPolicy]_vars

(* ---- string output ranges: colours, units, angles ---- *)
Rgba0 == <<"r", "g", "b", "a", "(", "0", ",", "0", ",", "0", ",", "0", ")">>
Rgba1 == <<"r", "g", "b", "a", "(", "2", "5", "5", ",", "2", "5", "5", ",", "2", "5", "5", ",", "1", ")">>
Red == <<"r", "e", "d">>
Blue == <<"b", "l", "u", "e">>
Deg0 == <<"0", "d", "e", "g">>
Deg90 == <<"9", "0", "d", "e", "g">>
Px == <<"1", "p", "x">>
Px2p5 == <<"2", ".", "5", "p", "x">>
Templates == {Rgba0, Rgba1, Red, Blue, Deg0, Deg90, Px, Px2p5}

StringConfigs ==
  {[inputRange |-> <<Num(0), Num(1)>>, outputRange |-> <<StrV(a), StrV(b)>>,
    easing |-> Undefined, extrapolate |-> Undefined,
    extrapolateLeft |-> Undefined, extrapolateRight |-> Undefined] :
     a \in Templates, b \in Templates}

InitString == InitWith(StringConfigs, {NumV(x) : x \in Inputs \cup {Frac(1, 3)}})

SpecString == InitString /\ [][NextPolicy]_vars

(* ---- construction from arbitrary ranges, numeric or string ---- *)
CtorVals == {NegInf, Num(0), PosInf}

Px1 == <<"1", "p", "x">>
Px2 == <<"2", "p", "x">>
Deg2 == <<"2", "d", "e", "g">>
PxOnly == <<"p", "x">>
Pair == <<"1", " ", "2">>
Single == <<" ", "3">>
StrPool == {Px1, Px2, Deg2, PxOnly, Pair, Single}

CtorOutputRanges ==
  {AsEntries(r) : r \in SeqsOf(CtorVals, 0, MaxLen)}
    \cup {[i \in 1..Len(r) |-> StrV(r[i])] : r \in SeqsOf(StrPool, 1, MaxLen)}

CtorConfigs ==
  {[inputRange |-> ir, outputRange |-> orng, easing |-> Undefined,
    extrapolate |-> Undefined, extrapolateLeft |-> Undefined,
    extrapolateRight |-> Undefined] :
     ir \in SeqsOf(CtorVals, 0, MaxLen), orng \in CtorOutputRanges}

InitCtor == InitWith(CtorConfigs, {NumV(Num(0)), NumV(Num(1)), StrV(Px1)})

SpecCtor == InitCtor /\ [][Next]_vars

(***************************************************************************)
(* Properties                                                              *)
(***************************************************************************)
Evaluated == jsOut.st = "value"
X == parentValue.v
Result == jsOut.val.v
Seg == Segment(interpolation, X, nodeValue)
Below == Evaluated /\ Lt(X, Seg.inputMin)
Above == Evaluated /\ Gt(X, Seg.inputMax)
EL == interpolation.extrapolateLeft
ER == interpolation.extrapolateRight

\* the smallest i in 1..n-2 (0-based) with r[i] >= x gives i - 1; none gives n - 2
LeftBiased(x, r) ==
  LET n == Len(r)
      hits == {i \in 1..(n - 2) : Ge(r[i + 1], x)}
  IN  IF hits = {} THEN n - 2
      ELSE (CHOOSE i \in hits : \A j \in hits : i <= j) - 1

FixesEnds(easing) == Ease(easing, Num(0)) = Num(0) /\ Ease(easing, Num(1)) = Num(1)
AllFinite(r) == \A i \in 1..Len(r) : IsFinite(r[i])
OutNums == [i \in 1..Len(config.outputRange) |-> config.outputRange[i].v]
FiniteRanges == AllFinite(config.inputRange) /\ AllFinite(OutNums)
Plain == FiniteRanges /\ config.easing = Undefined

\* C2 as stated (here already on finite ranges without easing): at
\* x = inputRange[i] the mapper returns exactly outputRange[i], for every
\* non-decreasing inputRange and every index i.
C2_BoundaryExactness_Original ==
  (Evaluated /\ Plain) =>
    \A i \in 1..Len(config.inputRange) :
      Eq(config.inputRange[i], X) => Result = config.outputRange[i].v

\* C2 amended: with finite ranges and an easing that fixes 0 and 1, at
\* x = inputRange[i] the mapper returns exactly outputRange[i] for every
\* index i that starts a run of equal inputRange values (i = 0, or
\* inputRange[i-1] < inputRange[i]).
C2_BoundaryExactness ==
  (Evaluated /\ FiniteRanges /\ FixesEnds(config.easing)) =>
    \A i \in 1..Len(config.inputRange) :
      (/\ Eq(config.inputRange[i], X)
       /\ (i = 1 \/ Lt(config.inputRange[i - 1], config.inputRange[i])))
      => Result = config.outputRange[i].v

\* the upper boundary of a middle segment was hit, under a non-linear easing
C2_Witness ==
  /\ Evaluated
  /\ Len(config.inputRange) = 3
  /\ config.easing = "quad"
  /\ Lt(config.inputRange[1], config.inputRange[2])
  /\ Eq(config.inputRange[2], X)
  /\ config.outputRange[2].v = Num(10)
  /\ config.outputRange[1].v = Num(0)
  /\ Result = Num(10)

\* the mapping of the chosen segment applied to another input
AsIf(x) ==
  interpolate(x, Seg.inputMin, Seg.inputMax, Seg.outputMin, Seg.outputMax,
              interpolation.easing, EL, ER).ret

\* the straight line through the segment's end points
HasSlope ==
  /\ IsFinite(Seg.inputMin) /\ IsFinite(Seg.inputMax)
  /\ IsFinite(Seg.outputMin) /\ IsFinite(Seg.outputMax)
  /\ Lt(Seg.inputMin, Seg.inputMax)
OnLine(x) ==
  Add(Seg.outputMin,
      Mul(Sub(x, Seg.inputMin),
          Div(Sub(Seg.outputMax, Seg.outputMin), Sub(Seg.inputMax, Seg.inputMin))))

\* C3 as stated (here already on finite ranges without easing): below
\* inputMin, identity returns x, clamp maps as if x were inputMin, extend
\* continues the segment's slope; mirrored above inputMax.
C3_Extrapolation_Original ==
  Plain =>
    /\ (Below /\ EL = "identity") => Result = X
    /\ (Below /\ EL = "clamp") => Result = AsIf(Seg.inputMin)
    /\ (Below /\ EL = "extend" /\ HasSlope) => Result = OnLine(X)
    /\ (Above /\ ER = "identity") => Result = X
    /\ (Above /\ ER = "clamp") => Result = AsIf(Seg.inputMax)
    /\ (Above /\ ER = "extend" /\ HasSlope) => Result = OnLine(X)

\* C3 amended: identity returns x; clamp maps as if x were inputMin, and as
\* if x were inputMax on a segment of non-zero width, while above a
\* zero-width segment it yields outputMax; extend continues the slope of a
\* finite segment of non-zero width under the identity easing.
C3_Extrapolation ==
  /\ (Below /\ EL = "identity") => Result = X
  /\ (Below /\ EL = "clamp") => Result = AsIf(Seg.inputMin)
  /\ (Below /\ EL = "extend" /\ HasSlope /\ config.easing = Undefined)
       => Result = OnLine(X)
  /\ (Above /\ ER = "identity") => Result = X
  /\ (Above /\ ER = "clamp" /\ ~Eq(Seg.inputMin, Seg.inputMax))
       => Result = AsIf(Seg.inputMax)
  /\ (Above /\ ER = "clamp" /\ Eq(Seg.inputMin, Seg.inputMax))
       => Result = Seg.outputMax
  /\ (Above /\ ER = "extend" /\ HasSlope /\ config.easing = Undefined)
       => Result = OnLine(X)

\* inputRange [0,1], outputRange [0,10], x = -1 under extend gave -10
C3_Witness ==
  /\ Evaluated
  /\ config.inputRange = <<Num(0), Num(1)>>
  /\ OutNums = <<Num(0), Num(10)>>
  /\ config.easing = Undefined
  /\ EL = "extend"
  /\ X = Num(-1)
  /\ Result = Num(-10)

ZeroWidthStep ==
  Evaluated /\ Eq(Seg.inputMin, Seg.inputMax) /\ ~Eq(Seg.outputMin, Seg.outputMax)

\* C6 as stated (here already on finite ranges without easing): on a
\* zero-width segment with distinct outputs the mapper returns outputMin for
\* x <= inputMin and outputMax for x > inputMin, and does not divide by the
\* zero width.
C6_ZeroWidth_Original ==
  (ZeroWidthStep /\ Plain) =>
    /\ Le(X, Seg.inputMin) => Result = Seg.outputMin
    /\ Gt(X, Seg.inputMin) => Result = Seg.outputMax
    /\ ~jsOut.divByZero

\* x lies outside the chosen segment on a side whose policy is identity
IdentityApplies == (Below /\ EL = "identity") \/ (Above /\ ER = "identity")

\* C6 amended: the same, except that an x outside the segment on a side
\* whose policy is identity is returned unchanged.
C6_ZeroWidth ==
  ZeroWidthStep =>
    /\ (Le(X, Seg.inputMin) /\ ~IdentityApplies) => Result = Seg.outputMin
    /\ (Gt(X, Seg.inputMin) /\ ~IdentityApplies) => Result = Seg.outputMax
    /\ IdentityApplies => Result = X
    /\ ~jsOut.divByZero

\* a zero-width segment with outputs 0 and 10 was evaluated exactly on the step
C6_Witness ==
  /\ ZeroWidthStep
  /\ Eq(X, Seg.inputMin)
  /\ Seg.outputMin = Num(0)
  /\ Seg.outputMax = Num(10)
  /\ Result = Num(0)

ConstantOutput == Evaluated /\ Eq(Seg.outputMin, Seg.outputMax)

\* C7 as stated (here already on finite ranges without easing): a segment
\* with outputMin == outputMax yields that constant for every x and every
\* combination of policies.
C7_ConstantOutput_Original ==
  (ConstantOutput /\ Plain) => Result = Seg.outputMin

\* C7 amended: it yields that constant unless x lies outside the segment on
\* a side whose policy is identity, where x is returned unchanged.
C7_ConstantOutput ==
  /\ (ConstantOutput /\ ~IdentityApplies) => Result = Seg.outputMin
  /\ (ConstantOutput /\ IdentityApplies) => Result = X

\* a constant segment was evaluated outside its bounds under clamp / extend
C7_Witness ==
  /\ ConstantOutput
  /\ Below
  /\ EL = "extend"
  /\ Seg.outputMin = Num(10)
  /\ ~Eq(Seg.inputMin, Seg.inputMax)
  /\ Result = Num(10)

BothTiers == Evaluated /\ nativeOut.st = "updated"

\* C4 (here already on finite ranges without easing): from the exported
\* config and the same upstream value, the native update() leaves in mValue
\* the value the scripting-tier mapper returns.
C4_TierEquivalence == (BothTiers /\ Plain) => mValue = Result

IsSpan(r) == Len(r) = 2 /\ r[1] = NegInf /\ r[2] = PosInf
EntryNums(r) == [i \in 1..Len(r) |-> IF r[i].k = "num" THEN r[i].v ELSE NaN]

\* a config the claim calls malformed
Malformed(cfg) ==
  \/ Len(cfg.inputRange) < 2
  \/ Len(cfg.outputRange) < 2
  \/ \E i \in 1..(Len(cfg.inputRange) - 1) : Lt(cfg.inputRange[i + 1], cfg.inputRange[i])
  \/ Len(cfg.inputRange) # Len(cfg.outputRange)
  \/ IsSpan(cfg.inputRange)
  \/ IsSpan(EntryNums(cfg.outputRange))

\* C5: constructing an interpolation from a malformed config (numeric or
\* string outputRange) fails, and a mapper that was constructed evaluates
\* every numeric input to a value: the only error of an evaluation is the
\* one for an input that is not a number.
C5_MalformedRejectedAtConstruction ==
  /\ (interpolation.st # "none" /\ Malformed(config)) => interpolation.st = "error"
  /\ (jsOut.st # "none" /\ parentValue.k = "num") => jsOut.st = "value"
  /\ jsOut.st = "error" =>
       jsOut.err \in {"Cannot interpolate an input which is not a number.",
                      "Cannot interpolation an input which is not a number"}

\* a string outputRange of matching pattern over a decreasing inputRange
\* was rejected by the constructor
C5_Witness ==
  /\ interpolation.st = "error"
  /\ interpolation.err = "inputRange must be monotonically increasing"
  /\ Len(config.outputRange) = Len(config.inputRange)
  /\ config.outputRange[1].k = "str"

\* the node the native tier finds under an identifier is a value node
Resolves(id) == getNodeById(registry, id).kind = "value"

\* C8: in the native tier a lookup by identifier that misses, or finds a
\* node that is no value node, is fatal: for the parent identifier of the
\* config the constructor fails and update() never skips silently, and for
\* the output nodes of the segment in use update() fails.
C8_LookupMissIsFatal ==
  /\ (native.st # "none" /\ ~Resolves(nativeConfig.parent)) => native.st = "error"
  /\ nativeOut.st # "skipped"
  /\ (nativeOut.st \in {"updated", "error"} /\ native.mOutputRangeAnimations # <<>>) =>
       LET r == findRangeIndex(registry[native.mParent].value, native.mInputRange)
       IN  (~Resolves(native.mOutputRangeAnimations[r + 1])
              \/ ~Resolves(native.mOutputRangeAnimations[r + 2]))
           => nativeOut.st = "error"

UnrecognizedMode == ~IsMode(EL) \/ ~IsMode(ER)

\* C9: with an extrapolation mode outside {extend, clamp, identity} an
\* evaluation fails, in the scripting tier and in the native tier, for
\* inputs inside and outside the range alike.
C9_UnrecognizedModeFails ==
  /\ (jsOut.st # "none" /\ UnrecognizedMode) => jsOut.st = "error"
  /\ (nativeOut.st # "none"
        /\ (~IsMode(native.mExtrapolateLeft) \/ ~IsMode(native.mExtrapolateRight)))
       => nativeOut.st = "error"

\* C10: an outputRange entry that is neither number, string nor node makes
\* the export fail; it is not exported as a number.
C10_IncompatibleEntryFails ==
  (nativeConfig.st # "none"
     /\ \E i \in 1..Len(config.outputRange) : config.outputRange[i].k = "other")
    => nativeConfig.st = "error"

(* ---- the graph protocol ---- *)
\* the node-valued entries of the configured outputRange, by position
RefAt(i) == config.outputRange[i].v[1]
RefPositions == {i \in 1..Len(config.outputRange) : config.outputRange[i].k = "node"}
DepSet == {Parent} \cup {RefAt(i) : i \in RefPositions}

Pos(log, n) == CHOOSE i \in 1..Len(log) : log[i] = n
Marked(log, n) == \E i \in 1..Len(log) : log[i] = n
Once(log) == \A i, j \in 1..Len(log) : log[i] = log[j] => i = j

\* the nodes a value node derives from, directly or through others
Ancestors(n) ==
  LET a == upstream[n]
      b == IF a = 0 THEN 0 ELSE upstream[a]
      c == IF b = 0 THEN 0 ELSE upstream[b]
  IN  {a, b, c} \ {0}

\* the dependencies visited before the entry at position i, and the nodes
\* reached by then: those dependencies and their ancestors
EarlierDeps(i) == {Parent} \cup {RefAt(k) : k \in {j \in RefPositions : j < i}}
ReachedBefore(i) == EarlierDeps(i) \cup UNION {Ancestors(e) : e \in EarlierDeps(i)}

PromotesSelf == ~Marked(promoted, Self) /\ Marked(promoted', Self)

\* C11: promoting the interpolation node marks its parent first, then the
\* node-valued outputRange entries in their order, then the node itself: an
\* entry not reached before its turn is marked after the parent and after
\* every earlier entry, and the node itself last; no node is ever marked
\* twice, and a node is marked only after every node it depends on.
C11_PromotionOrder ==
  [][/\ Once(promoted')
     /\ SubSeq(promoted', 1, Len(promoted)) = promoted
     /\ \A n \in Nodes :
          (Marked(promoted', n) /\ upstream[n] # 0) =>
            (Marked(promoted', upstream[n]) /\ Pos(promoted', upstream[n]) < Pos(promoted', n))
     /\ Marked(promoted', Self) =>
          \A d \in DepSet : Marked(promoted', d) /\ Pos(promoted', d) < Pos(promoted', Self)
     /\ PromotesSelf =>
          /\ promoted'[Len(promoted')] = Self
          /\ \A i \in RefPositions :
               (~Marked(promoted, RefAt(i)) /\ RefAt(i) \notin ReachedBefore(i))
                 => \A a \in EarlierDeps(i) :
                      Pos(promoted', a) < Pos(promoted', RefAt(i))]_vars

\* promoted: a node whose two node-valued entries derive from a common
\* ancestor, each node marked once
C11_Witness ==
  /\ config.outputRange = <<NodeV(2), NodeV(3)>>
  /\ upstream[2] = Parent /\ upstream[3] = Parent
  /\ promoted = <<1, 2, 3, Self>>

\* C12: attach registers the node as a child of its parent and of every
\* node-valued outputRange entry and of no other node; detach removes exactly
\* those registrations, so the child sets after attach; detach are those
\* before attach, also when the tear-down of the native counterpart fails.
C12_DetachInvertsAttach ==
  [][/\ (lifecycle # "attached" /\ lifecycle' = "attached") =>
          \A n \in Nodes :
            children'[n] = IF n \in DepSet THEN Append(children[n], Self) ELSE children[n]
     /\ (lifecycle = "attached" /\ lifecycle' # "attached") =>
          \A n \in Nodes :
            children[n] = IF n \in DepSet THEN Append(children'[n], Self) ELSE children'[n]
     /\ lifecycle' # "attached" => \A n \in Nodes : ~Marked(children'[n], Self)]_vars

\* detached again after a failed tear-down, the other child still registered
C12_Witness ==
  /\ lifecycle = "detached" /\ teardown = "failed"
  /\ config.outputRange = <<NodeV(2), NodeV(3)>>
  /\ children = [n \in Nodes |-> <<Sibling>>]

\* what the entry at position i of the configured outputRange is worth now
Current(i) ==
  IF config.outputRange[i].k = "node" THEN nodeValue[RefAt(i)].v
  ELSE config.outputRange[i].v

\* the recorded outcome is the one of a call on the present values: a failure
\* when the parent's value is no number, else the point at the parent's value
\* of the line through (0, first entry) and (1, second entry)
FreshResult ==
  IF parentValue.k # "num" THEN jsOut.st = "error"
  ELSE /\ jsOut.st = "value"
       /\ Eq(jsOut.val.v, Add(Current(1), Mul(X, Sub(Current(2), Current(1)))))

\* C13: __getValue is a pull without caching: whatever changes the values of
\* the parent and of the node-valued entries went through, a call returns the
\* mapping of the values of that moment (and fails when the parent's value
\* is no number), and the call leaves child sets, promotion state, config
\* and mapper as they were.
C13_PullWithoutCaching ==
  /\ [](jsOut.st # "none" => FreshResult)
  /\ [][(jsOut' # jsOut /\ jsOut'.st # "none") =>
          UNCHANGED <<graphVars, config, interpolation, nodeValue>>]_vars

\* a pull after the parent and both referenced nodes have changed
C13_Witness ==
  /\ config.outputRange = <<NodeV(2), NodeV(3)>>
  /\ nodeValue = <<NumV(Num(10)), NumV(Num(0)), NumV(Num(1))>>
  /\ jsOut.st = "value" /\ jsOut.val = NumV(Num(10))
  /\ lifecycle = "attached" /\ Marked(promoted, Self)

(* ---- export ---- *)
Exported == nativeConfig.st = "ok"

\* the export fails when a referenced node has no native identifier, and a
\* finished export carries, at the position of every node-valued entry, the
\* identifier of that node
ResolvesTags ==
  /\ (nativeConfig.st # "none" /\ \E i \in RefPositions : ~Marked(promoted, RefAt(i)))
       => nativeConfig.st = "error"
  /\ Exported =>
       \A i \in RefPositions :
         /\ nativeConfig.outputRange[i] = Num(RefAt(i))
         /\ Marked(promoted, RefAt(i))

IsPromotedId(a) == \E n \in Range(promoted) : a = Num(n)

\* C14: on export every node-valued entry of outputRange becomes that
\* node's native identifier, the export fails when a referenced node has
\* none, and an exported config flagged isOutputRangeAnimations holds only
\* identifiers of promoted nodes in its outputRange (looked at once the
\* node itself is promoted).
C14_ExportResolvesTags ==
  /\ ResolvesTags
  /\ (Exported /\ nativeConfig.isOutputRangeAnimations /\ Marked(promoted, Self)) =>
       \A i \in 1..Len(nativeConfig.outputRange) : IsPromotedId(nativeConfig.outputRange[i])

\* the side's field if given, else the extrapolate field if given, else extend
Effective(side) ==
  IF side # Undefined THEN side
  ELSE IF config.extrapolate # Undefined THEN config.extrapolate
  ELSE "extend"

\* C15: the mapper's policy for a side is that side's field if given, else
\* extrapolate if given, else 'extend', each side on its own, and the
\* extrapolateLeft / extrapolateRight of the exported config are the
\* policies the mapper uses for the same config.
C15_ExtrapolationDefaulting ==
  /\ interpolation.st = "ok" =>
       /\ EL = Effective(config.extrapolateLeft)
       /\ ER = Effective(config.extrapolateRight)
  /\ Exported =>
       /\ nativeConfig.extrapolateLeft = EL
       /\ nativeConfig.extrapolateRight = ER

(* ---- string output ranges ---- *)
\* the j-th configured string after colour normalization, and its i-th number
Template(j) == colorToRgba(config.outputRange[j].v)
Channel(j, i) == ToNumber(match(Template(j))[i])

StringEvaluated == jsOut.st = "value" /\ jsOut.val.k = "str"

\* over inputRange [0, 1] with the default policies: the line through the
\* i-th numbers of the two templates, at the parent's value
Expected(i) == Add(Channel(1, i), Mul(X, Sub(Channel(2, i), Channel(1, i))))

\* the i-th number read back from the result
Printed(i) == ToNumber(match(jsOut.val.v)[i])

\* r is v rounded to a multiple of 1/scale, a tie going up
IsRounding(r, v, scale) ==
  /\ Mul(r, Num(scale))[2] = 1
  /\ Le(Sub(r, Frac(1, 2 * scale)), v)
  /\ Lt(v, Add(r, Frac(1, 2 * scale)))

StartsWithRgb(str) == Len(str) >= 3 /\ str[1] = "r" /\ str[2] = "g" /\ str[3] = "b"

\* what is left of a string without the characters of its numbers
NonNumeric(str) == SelectSeq(str, LAMBDA c : c \notin {"0", "1", "2", "3", "4", "5", "6", "7", "8", "9", ".", "-"})

\* C16: the result of a string interpolation is the first normalized
\* template with its numbers replaced, left to right, by the channels'
\* mapped values: the first three rounded to integers when the template
\* starts with rgb, every other one rounded to 3 decimals.
C16_StringReconstruction ==
  StringEvaluated =>
    /\ NonNumeric(jsOut.val.v) = NonNumeric(Template(1))
    /\ Len(match(jsOut.val.v)) = Len(match(Template(1)))
    /\ \A i \in 1..Len(match(Template(1))) :
         IsRounding(Printed(i), Expected(i),
                    IF StartsWithRgb(Template(1)) /\ i <= 3 THEN 1 ELSE 1000)

\* rgba(0,0,0,0) to rgba(255,255,255,1) at 0.5
C16_Witness ==
  /\ config.outputRange = <<StrV(Rgba0), StrV(Rgba1)>>
  /\ parentValue = NumV(Frac(1, 2))
  /\ StringEvaluated
  /\ jsOut.val.v = <<"r", "g", "b", "a", "(", "1", "2", "8", ",", " ", "1", "2", "8", ",", " ", "1", "2", "8", ",", " ", "0", ".", "5", ")">>

Mismatched ==
  /\ \A j \in 1..Len(config.outputRange) : config.outputRange[j].k = "str"
  /\ \E j \in 1..Len(config.outputRange) : NonNumeric(Template(j)) # NonNumeric(Template(1))

\* C17: string outputRange entries that, once normalized and stripped of
\* their numbers, are not all the same text make the construction fail: no
\* mapper is built and nothing is ever evaluated.
C17_MismatchedTemplates ==
  (interpolation.st # "none" /\ Mismatched) =>
    /\ interpolation.st = "error"
    /\ jsOut.st = "none"

\* ["1px", "90deg"] was rejected
C17_Witness ==
  /\ config.outputRange = <<StrV(Px), StrV(Deg90)>>
  /\ interpolation.st = "error"

\* the string starts with the number p as String(p) prints it
HasNumericPrefix(str, p) ==
  LET text == NumberToString(p)
  IN  /\ Len(str) >= Len(text)
      /\ SubSeq(str, 1, Len(text)) = text
      /\ Len(str) > Len(text) => str[Len(text) + 1] \notin {"0", "1", "2", "3", "4", "5", "6", "7", "8", "9", "."}

EndsInDeg(str) ==
  Len(str) >= 3 /\ str[Len(str) - 2] = "d" /\ str[Len(str) - 1] = "e" /\ str[Len(str)] = "g"

StartsWithNumber(str) ==
  str # <<>> /\ str[1] \in {"0", "1", "2", "3", "4", "5", "6", "7", "8", "9", "-"}

\* C18: the exported outputRange has the length and order of the configured
\* one; a number is exported as it is, a string that starts with a number
\* as that number, and as that number times pi / 180 when it ends in deg.
C18_AngleExport ==
  Exported =>
    /\ Len(nativeConfig.outputRange) = Len(config.outputRange)
    /\ \A i \in 1..Len(config.outputRange) :
         LET e == config.outputRange[i]
             out == nativeConfig.outputRange[i]
         IN  /\ e.k = "num" => out = e.v
             /\ (e.k = "str" /\ StartsWithNumber(e.v)) =>
                  IF EndsInDeg(e.v)
                  THEN HasNumericPrefix(e.v, Div(Mul(out, Num(180)), MathPI))
                  ELSE HasNumericPrefix(e.v, out)

\* ["0deg", "90deg"] exported as [0, pi / 2]
C18_Witness ==
  /\ config.outputRange = <<StrV(Deg0), StrV(Deg90)>>
  /\ Exported
  /\ nativeConfig.outputRange = <<Num(0), Div(MathPI, Num(2))>>

(* ---- safety of the segment search, bounds of clamping ---- *)
\* r and r + 1 are 0-based positions of a range of length n
InBounds(r, n) == 0 <= r /\ r + 1 <= n - 1

\* C19: for an inputRange of length n >= 2 and any input, findRange and the
\* native findRangeIndex return an index r with 0 <= r <= n - 2, so r and
\* r + 1 are positions of inputRange and outputRange: checked on the search
\* for the parent's value as soon as the mapper or the native node exists,
\* and on the segment every evaluation used.
C19_IndexSafety ==
  /\ (interpolation.st = "ok" /\ parentValue.k = "num") =>
       /\ Len(config.inputRange) >= 2
       /\ Len(config.outputRange) = Len(config.inputRange)
       /\ InBounds(findRange(X, config.inputRange), Len(config.inputRange))
  /\ Evaluated => InBounds(jsOut.range, Len(config.inputRange))
  /\ (native.st = "ok" /\ native.mParent # 0) =>
       InBounds(findRangeIndex(registry[native.mParent].value, native.mInputRange),
                Len(native.mInputRange))
  /\ nativeOut.st = "updated" => InBounds(nativeOut.range, Len(native.mInputRange))

\* an input above the whole range, evaluated in both tiers on the last segment
C19_Witness ==
  /\ Len(config.inputRange) = MaxLen
  /\ Evaluated /\ Gt(X, config.inputRange[MaxLen])
  /\ jsOut.range = MaxLen - 2
  /\ nativeOut.st = "updated" /\ nativeOut.range = MaxLen - 2

Between(r, a, b) == (Le(a, r) /\ Le(r, b)) \/ (Le(b, r) /\ Le(r, a))

\* the two output values of the segment the left-biased scan selects
SelectedMin == OutNums[LeftBiased(X, config.inputRange) + 1]
SelectedMax == OutNums[LeftBiased(X, config.inputRange) + 2]

Clamped ==
  /\ Evaluated /\ Plain
  /\ EL = "clamp" /\ ER = "clamp"

====
